---- MODULE Spec2Model ----
(***************************************************************************)
(* A model of the two notebooks of tf-serving-k8s-tutorial: the Keras      *)
(* export notebook (helper functions, their unit-test cells, the graph,    *)
(* the SavedModelBuilder export) and the validation notebook that loads    *)
(* the servable and sends it one request.                                  *)
(*                                                                         *)
(* Scores are integers: a score vector holds the numerators of its         *)
(* entries over one common positive denominator, as the unit test builds   *)
(* its input (weights divided by TOTAL_WEIGHT), so comparing numerators is *)
(* comparing scores.  Pixel values are float32 values, held as integers in *)
(* units of 2^-17 (the float32 spacing between 64 and 128); decimal        *)
(* literals of the notebook are held in ten-thousandths.                   *)
(***************************************************************************)
EXTENDS Integers, Sequences, FiniteSets, TLC

\* ----------------------------------------------------------------- constants
TOP_K == 5
NUM_CLASSES == 1001

_DEFAULT_IMAGE_SIZE == 224

\* The per-channel means keras.applications.resnet50.preprocess_input
\* subtracts in 'caffe' mode (103.939, 116.779, 123.68), in ten-thousandths,
\* in the order B, G, R.
MEAN_B == 1039390
MEAN_G == 1167790
MEAN_R == 1236800

\* ERROR_TOLERANCE = 1e-4, in ten-thousandths.
ERROR_TOLERANCE == 1

\* Length of the scaled-down score vectors (stands for the 1001 classes).
NumClasses == 6

\* A submitted image is at most MaxHeightFactor * 224 pixels high, and a
\* request or test batch holds at most MaxBatch images.
MaxHeightFactor == 2
MaxBatch == 2

\* The version numbers a user sets VERSION_NUMBER to, and the number of
\* times the notebook's kernel is started.
MaxVersion == 2
MaxKernels == 2

\* The version the validation notebook loads.
VERSION == 1

\* Score numerators of the scaled-down vectors: one negative level, and
\* enough levels for TOP_K pairwise distinct winners above a common floor.
Scores == (0 - 1)..(TOP_K - 1)

VARIABLES
    test_model_output,      \* the tensor fed to the output unit test
    test_result,            \* what sess.run(test_prediction_output) returned
    test_jpeg_tensor,       \* the batch fed to the input unit test
    test_processed,         \* what sess.run(test_processed_images) returned
    test_jpeg,              \* the string fed to the JPEG decoding unit test
    test_decoded_tensor     \* what sess.run(test_decoded_tensor) returned

VARIABLES
    kernel,                 \* which start of the export notebook's kernel this is
    VERSION_NUMBER,         \* 0 while the name is not bound; SERVING_DIR follows it
    session,                \* the Keras backend's session: "none", "open", "closed"
    graph,                  \* which of images and predictions are bound
    builder,                \* the SavedModelBuilder, [dir, has_saved_variables]
    signature,              \* the signature the builder cell bound
    fs,                     \* keras_resnet_servable/<version>, per version
    last                    \* the cell run last and whether it raised

VARIABLES
    predict_fn,             \* the validation notebook's predictor
    request,                \* the images it was sent
    served                  \* what predict_fn returned

postVars == <<test_model_output, test_result>>
preVars == <<test_jpeg_tensor, test_processed, test_jpeg, test_decoded_tensor>>
kernelVars == <<kernel, VERSION_NUMBER, session, graph, builder, signature, last>>
serveVars == <<predict_fn, request, served>>
vars == <<postVars, preVars, kernelVars, fs, serveVars>>

\* ------------------------------------------------------------------- tensors
\* A tensor of floats is [rank, data]: rank 1 holds a sequence of scores,
\* rank 2 a sequence of such sequences (one per batch row).
Tensor1(v) == [rank |-> 1, data |-> v]
Tensor2(m) == [rank |-> 2, data |-> m]

NoResult == [status |-> "unset", classes |-> <<>>, probabilities |-> <<>>]
ErrorResult == [status |-> "error", classes |-> <<>>, probabilities |-> <<>>]

\* The output test graph, fed nothing and not run.
PostIdle == test_model_output = Tensor1(<<>>) /\ test_result = NoResult

\* ------------------------------------------------------------ tf.nn.top_k
\* Mutant: the comparison reversed (the k smallest entries are selected).
PrecedesAscending(v, i, j) == v[i] < v[j] \/ (v[i] = v[j] /\ i < j)

\* Entry i is ranked before entry j: larger value first, and of two equal
\* values the one with the lower index first.
Precedes(v, i, j) == v[i] > v[j] \/ (v[i] = v[j] /\ i < j)

\* The positions (1-based) of the k first-ranked entries of v, in rank order.
RECURSIVE TopIndices(_, _, _)
TopIndices(v, k, taken) ==
    IF k = 0 THEN <<>>
    ELSE LET rest == DOMAIN v \ taken
             best == CHOOSE i \in rest : \A j \in rest \ {i} : Precedes(v, i, j)
         IN  <<best>> \o TopIndices(v, k - 1, taken \cup {best})

\* Mutant: the selected entries are reported in input order (sorted=False).
RECURSIVE InsertAscending(_, _)
InsertAscending(s, x) ==
    IF s = <<>> THEN <<x>>
    ELSE IF x < Head(s) THEN <<x>> \o s
    ELSE <<Head(s)>> \o InsertAscending(Tail(s), x)

RECURSIVE SortAscending(_)
SortAscending(s) ==
    IF s = <<>> THEN <<>> ELSE InsertAscending(SortAscending(Tail(s)), Head(s))

RankedUnsorted(v, k) == SortAscending(TopIndices(v, k, {}))

\* Mutant: the first k entries are taken, whatever their values.
RankedFirstK(v, k) == [i \in 1..k |-> i]

\* Mutant: each selected value is reported at the first position holding
\* that value.
RankedByValue(v, k) ==
    [r \in 1..k |->
        CHOOSE i \in DOMAIN v :
            /\ v[i] = v[TopIndices(v, k, {})[r]]
            /\ \A j \in 1..(i - 1) : v[j] # v[i]]

\* The k selected positions of row v in output order.
Ranked(v, k) == TopIndices(v, k, {})

\* Mutant: the indices are reported 1-based.
IndexOfOneBased(pos) == pos

\* The class index reported for the (1-based) position pos of the sequence.
IndexOf(pos) == pos - 1

\* top_k on one row: values and indices of the k largest entries, sorted.
TopKRow(v, k) ==
    LET idx == Ranked(v, k)
    IN  [values  |-> [i \in 1..k |-> v[idx[i]]],
         indices |-> [i \in 1..k |-> IndexOf(idx[i])]]

\* tf.nn.top_k(input, k): along the last dimension; an input whose last
\* dimension is shorter than k is rejected.
top_k(input, k) ==
    IF input.rank = 1
    THEN IF Len(input.data) < k
         THEN [ok |-> FALSE, values |-> <<>>, indices |-> <<>>]
         ELSE [ok |-> TRUE,
               values  |-> TopKRow(input.data, k).values,
               indices |-> TopKRow(input.data, k).indices]
    ELSE IF \E r \in DOMAIN input.data : Len(input.data[r]) < k
         THEN [ok |-> FALSE, values |-> <<>>, indices |-> <<>>]
         ELSE LET rows == [r \in DOMAIN input.data |-> TopKRow(input.data[r], k)]
              IN  [ok |-> TRUE,
                   values  |-> [r \in DOMAIN rows |-> rows[r].values],
                   indices |-> [r \in DOMAIN rows |-> rows[r].indices]]

\* Mutant: one entry too few is requested.
SelectedCountShort == TOP_K - 1

\* The k that postprocess_output passes to top_k.
SelectedCount == TOP_K

\* Mutant: the two results of top_k are unpacked in the wrong order.
postprocess_output_swapped(model_output) ==
    LET t == top_k(model_output, SelectedCount)
    IN  IF t.ok
        THEN [status |-> "ok", classes |-> t.values, probabilities |-> t.indices]
        ELSE ErrorResult

\* postprocess_output(model_output): the top k classes and probabilities.
postprocess_output(model_output) ==
    LET t == top_k(model_output, SelectedCount)
    IN  IF t.ok
        THEN [status |-> "ok", classes |-> t.indices, probabilities |-> t.values]
        ELSE ErrorResult

\* ------------------------------------------------------- input helpers
\* A JPEG string, by what it decodes to: a height x width image of one
\* colour, its R, G, B values each 0 or 255.  Images are 224 wide and a
\* multiple of 224 high (224 x 224 is what resnet_client.py sends).
PixelLevels == {0, 255}
Jpegs ==
    [height : {m * _DEFAULT_IMAGE_SIZE : m \in 1..MaxHeightFactor},
     width  : {_DEFAULT_IMAGE_SIZE},
     rgb    : [1..3 -> PixelLevels]]

\* The batches of 1..MaxBatch JPEG strings a graph is fed.
JpegBatches == UNION {[1..n -> Jpegs] : n \in 1..MaxBatch}

\* tf.image.decode_jpeg(encoded_image, channels=3): a uint8 tensor of shape
\* height x width x 3 (every pixel of it px, in R, G, B order).
decode_jpeg(encoded_image) ==
    [shape |-> <<encoded_image.height, encoded_image.width, 3>>,
     px    |-> encoded_image.rgb]

\* The number of float units (2^-17) in 1.0.
UnitsPerOne == 2^17

\* The largest number of units not above the decimal d >= 0 (d in
\* ten-thousandths), and what is left over, in ten-thousandths of a unit.
DecimalFloorUnits(d) ==
    (d \div 10000) * UnitsPerOne + ((d % 10000) * UnitsPerOne) \div 10000
DecimalRestUnits(d) == ((d % 10000) * UnitsPerOne) % 10000

\* The float32 nearest to a decimal literal between 64 and 128 (a whole
\* number of units; of two equally near ones the even one).
Float32OfDecimal(d) ==
    LET q == DecimalFloorUnits(d)
        r == DecimalRestUnits(d)
    IN  IF 2 * r > 10000 \/ (2 * r = 10000 /\ q % 2 = 1) THEN q + 1 ELSE q

\* The float32 nearest to x units, for |x| below 256: exact below 128, and
\* from 128 on a multiple of 2 units (of two equally near ones the one with
\* the even mantissa, a multiple of 4 units).
Float32Round(x) ==
    LET a == IF x < 0 THEN 0 - x ELSE x
        r == IF a < 128 * UnitsPerOne \/ a % 2 = 0 THEN a
             ELSE IF (a + 1) % 4 = 0 THEN a + 1 ELSE a - 1
    IN  IF x < 0 THEN 0 - r ELSE r

\* tf.to_float: the same values as float32 (in units).
to_float(image) ==
    [shape |-> image.shape, px |-> [c \in 1..3 |-> UnitsPerOne * image.px[c]]]

\* Mutant: the preprocessing call is left out.
resnet50_preprocess_input_skipped(image) == image

\* resnet50.preprocess_input ('caffe'): RGB -> BGR, then the channel means,
\* as float32 constants, are subtracted; the values are not rescaled.
resnet50_preprocess_input(image) ==
    [shape |-> image.shape,
     px    |-> <<Float32Round(image.px[3] - Float32OfDecimal(MEAN_B)),
                 Float32Round(image.px[2] - Float32OfDecimal(MEAN_G)),
                 Float32Round(image.px[1] - Float32OfDecimal(MEAN_R))>>]

convert_jpeg_to_image(encoded_image) ==
    resnet50_preprocess_input(to_float(decode_jpeg(encoded_image)))

NoImages == [status |-> "unset", rows |-> <<>>]
ImagesError == [status |-> "error", rows |-> <<>>]

NoJpeg == [height |-> 0, width |-> 0, rgb |-> <<0, 0, 0>>]
NoTensor == [status |-> "unset", shape |-> <<>>, px |-> <<>>]

\* The two input test graphs, fed nothing and not run.
DecodeIdle == test_jpeg = NoJpeg /\ test_decoded_tensor = NoTensor
BatchIdle == test_jpeg_tensor = <<>> /\ test_processed = NoImages
PreIdle == BatchIdle /\ DecodeIdle

\* Mutant: the converted images come out in reverse order.
map_fn_reversed(jpeg_tensor) ==
    [i \in DOMAIN jpeg_tensor |->
        convert_jpeg_to_image(jpeg_tensor[Len(jpeg_tensor) + 1 - i])]

\* tf.map_fn(convert_jpeg_to_image, jpeg_tensor): element i of the result is
\* the function applied to element i.
map_fn_convert(jpeg_tensor) ==
    [i \in DOMAIN jpeg_tensor |-> convert_jpeg_to_image(jpeg_tensor[i])]

\* The number of values of a tensor of the given shape.
NumElements(shape) == shape[1] * shape[2] * shape[3]

\* tf.reshape(..., [-1, 224, 224, 3]): the number of rows the -1 stands for.
ReshapedRows(images) ==
    (Len(images) * NumElements(images[1].shape))
        \div (_DEFAULT_IMAGE_SIZE * _DEFAULT_IMAGE_SIZE * 3)

\* preprocess_input(jpeg_tensor).  map_fn stacks its results, so they must
\* all have one shape; tf.stack leaves the stacked tensor as it is; reshape
\* needs the number of values to be a multiple of 224 * 224 * 3 and cuts the
\* values, in order, into rows of that size (an image being a whole number
\* of rows here, row r lies in one image).
preprocess_input(jpeg_tensor) ==
    LET images  == map_fn_convert(jpeg_tensor)
        rowSize == _DEFAULT_IMAGE_SIZE * _DEFAULT_IMAGE_SIZE * 3
        perImg  == NumElements(images[1].shape)
        total   == Len(images) * perImg
    IN  IF \E i \in DOMAIN images : images[i].shape # images[1].shape
        THEN ImagesError
        ELSE IF total % rowSize # 0
        THEN ImagesError
        ELSE [status |-> "ok",
              rows   |-> [r \in 1..ReshapedRows(images) |->
                            [shape |-> <<_DEFAULT_IMAGE_SIZE, _DEFAULT_IMAGE_SIZE, 3>>,
                             px    |-> images[(((r - 1) * rowSize) \div perImg) + 1].px]]]

\* ------------------------------------------------- output unit-test cells
\* The unit test's input: ones, with 2.5, 3.5, 4, 3 and 2 at indices 2, 5,
\* 10, 49 and 998, in half units (so every numerator is an integer).
model_probs ==
    [p \in 1..NUM_CLASSES |->
        CASE p - 1 = 2   -> 5
          [] p - 1 = 5   -> 7
          [] p - 1 = 10  -> 8
          [] p - 1 = 49  -> 6
          [] p - 1 = 998 -> 4
          [] OTHER       -> 2]

\* TOTAL_WEIGHT = np.sum(model_probs): the common denominator of a vector.
RECURSIVE SumRange(_, _, _)
SumRange(v, lo, hi) ==
    IF lo > hi THEN 0
    ELSE IF lo = hi THEN v[lo]
    ELSE LET mid == (lo + hi) \div 2
         IN  SumRange(v, lo, mid) + SumRange(v, mid + 1, hi)

TOTAL_WEIGHT(v) == SumRange(v, 1, Len(v))

\* ------------------------------------------------------ the export cells
Versions == 1..MaxVersion

NoSignature == [inputs |-> {}, outputs |-> {}]
NoBuilder == [dir |-> 0, has_saved_variables |-> FALSE]
NoGraph == [images |-> FALSE, predictions |-> {}]

\* A directory keras_resnet_servable/<version>: "absent"; "empty" (made by
\* the builder, nothing in it); "partial" (a variables directory and no
\* saved_model.pb); "saved" (a servable, with its signature and the kernel
\* that wrote it).
Absent == [state |-> "absent", signature |-> NoSignature, kernel |-> 0]
EmptyDir == [state |-> "empty", signature |-> NoSignature, kernel |-> 0]
PartialDir == [state |-> "partial", signature |-> NoSignature, kernel |-> 0]
SavedDir(sig, k) == [state |-> "saved", signature |-> sig, kernel |-> k]

\* SERVING_DIR = "keras_resnet_servable/" + str(VERSION_NUMBER): a directory
\* is named by its version number.
SERVING_DIR == VERSION_NUMBER

\* The keys of the dictionary postprocess_output returns.
PredictionKeys == DOMAIN postprocess_output(Tensor2(<<>>)) \ {"status"}

\* Mutant: only the classes are exposed.
predict_signature_def_classes_only(inputs, outputs) ==
    [inputs |-> inputs, outputs |-> outputs \cap {"classes"}]

\* predict_signature_def(inputs=..., outputs=...): the keys it exposes.
predict_signature_def(inputs, outputs) ==
    [inputs |-> inputs, outputs |-> outputs]

\* A fresh kernel: no name bound, no session.
KernelFresh ==
    /\ VERSION_NUMBER = 0
    /\ session = "none"
    /\ graph = NoGraph
    /\ builder = NoBuilder
    /\ signature = NoSignature

KernelIdle == kernel = 1 /\ KernelFresh /\ last = [cell |-> "start", ok |-> TRUE]
FsEmpty == fs = [v \in Versions |-> Absent]

\* VERSION_NUMBER = v; SERVING_DIR = ...
SetVersion(v) ==
    /\ VERSION_NUMBER' = v
    /\ last' = [cell |-> "version", ok |-> TRUE]
    /\ UNCHANGED <<kernel, session, graph, builder, signature, fs>>

\* Cells are run from the top: a cell is run once the names it reads have
\* been bound by the cells above it.
\* The cell that builds the end-to-end graph.  ResNet50 loads its weights
\* through the backend session, which it creates when there is none, and
\* raises when that session is closed (predictions is then left as it was).
BuildGraph ==
    /\ VERSION_NUMBER # 0
    /\ IF session = "closed"
       THEN /\ graph' = [graph EXCEPT !.images = TRUE]
            /\ session' = session
            /\ last' = [cell |-> "graph", ok |-> FALSE]
       ELSE /\ graph' = [images |-> TRUE, predictions |-> PredictionKeys]
            /\ session' = "open"
            /\ last' = [cell |-> "graph", ok |-> TRUE]
    /\ UNCHANGED <<kernel, VERSION_NUMBER, builder, signature, fs>>

\* Whether SavedModelBuilder(export_dir) accepts the directory: a missing one
\* always, one that holds anything never, and an existing empty one only in
\* the library versions that look into it (lenient).
BuilderAccepts(dir, lenient) ==
    \/ fs[dir].state = "absent"
    \/ fs[dir].state = "empty" /\ lenient

\* The cell that makes the builder and the signature.  The builder makes
\* its directory, or raises and leaves builder and signature as they were.
CreateBuilder ==
    /\ VERSION_NUMBER # 0
    /\ graph.images /\ graph.predictions # {}
    /\ \E lenient \in BOOLEAN :
        LET accepted == BuilderAccepts(SERVING_DIR, lenient)
        IN  /\ builder' = IF accepted
                          THEN [dir |-> SERVING_DIR, has_saved_variables |-> FALSE]
                          ELSE builder
            /\ fs' = IF accepted
                     THEN [fs EXCEPT ![SERVING_DIR] = EmptyDir]
                     ELSE fs
            /\ signature' = IF accepted
                            THEN predict_signature_def({"images"}, graph.predictions)
                            ELSE signature
            /\ last' = [cell |-> "builder", ok |-> accepted]
    /\ UNCHANGED <<kernel, VERSION_NUMBER, session, graph>>

\* The session once the export cell's with block is left: __exit__ closes
\* the session K.get_session() returned, the backend's one and only.
SessionAfterExport == "closed"

\* builder.add_meta_graph_and_variables can start: this builder has not
\* saved its variables yet.
CanAddMetaGraph == ~builder.has_saved_variables

\* The export cell: with K.get_session() as sess: add the meta graph and
\* the variables, then save.  Saving the variables makes the variables
\* directory and then runs the session, which raises when it is closed.
ExportServable ==
    /\ builder.dir # 0
    /\ signature # NoSignature
    /\ IF ~CanAddMetaGraph
       THEN /\ UNCHANGED <<builder, fs>>
            /\ last' = [cell |-> "export", ok |-> FALSE]
       ELSE IF session = "closed"
       THEN /\ fs' = [fs EXCEPT ![builder.dir] = PartialDir]
            /\ UNCHANGED builder
            /\ last' = [cell |-> "export", ok |-> FALSE]
       ELSE /\ fs' = [fs EXCEPT ![builder.dir] = SavedDir(signature, kernel)]
            /\ builder' = [builder EXCEPT !.has_saved_variables = TRUE]
            /\ last' = [cell |-> "export", ok |-> TRUE]
    /\ session' = SessionAfterExport
    /\ UNCHANGED <<kernel, VERSION_NUMBER, graph, signature>>

\* The kernel is restarted: every name is unbound, the files stay.
RestartKernel ==
    /\ kernel < MaxKernels
    /\ kernel' = kernel + 1
    /\ VERSION_NUMBER' = 0
    /\ session' = "none"
    /\ graph' = NoGraph
    /\ builder' = NoBuilder
    /\ signature' = NoSignature
    /\ last' = [cell |-> "start", ok |-> TRUE]
    /\ UNCHANGED fs

\* ------------------------------------------------ the validation notebook
NoPredictor == [loaded |-> FALSE, signature |-> NoSignature]
NoResponse == [status |-> "unset", response |-> <<>>]
ResponseError == [status |-> "error", response |-> <<>>]

ServeIdle == predict_fn = NoPredictor /\ request = <<>> /\ served = NoResponse

\* resnet50.ResNet50(input_tensor=processed_images) on one 224 x 224 x 3
\* row: one positive weight per class, the class probabilities being the
\* weights over their sum.  The trained weights are not part of the
\* notebook; here a class weighs 2 when its channel (classes taken modulo 3)
\* is above the mean in the row and 1 when it is not.
ResNet50(row) ==
    [c \in 1..NumClasses |-> IF row.px[((c - 1) % 3) + 1] > 0 THEN 2 ELSE 1]

\* The exported graph run on a feed: preprocess_input, the model, then
\* postprocess_output, returned under the signature's output keys.
RunServable(sig, feed) ==
    IF DOMAIN feed # sig.inputs
    THEN ResponseError
    ELSE LET processed_images == preprocess_input(feed.images)
             model_output ==
                 Tensor2([r \in DOMAIN processed_images.rows |->
                             ResNet50(processed_images.rows[r])])
             predictions == postprocess_output(model_output)
         IN  IF processed_images.status # "ok" \/ predictions.status # "ok"
             THEN ResponseError
             ELSE [status   |-> "ok",
                   response |-> [k \in sig.outputs |-> predictions[k]]]

\* predictor.from_saved_model(os.path.join(SERVING_DIR, str(VERSION)),
\* signature_def_key='predict'): raises unless a servable is saved there.
LoadPredictor ==
    /\ fs[VERSION].state = "saved"
    /\ predict_fn = NoPredictor
    /\ predict_fn' = [loaded |-> TRUE, signature |-> fs[VERSION].signature]
    /\ UNCHANGED <<request, served>>

\* predictions = predict_fn({'images': [...]}), sent once.
Predict ==
    /\ predict_fn.loaded
    /\ served = NoResponse
    /\ \E images \in JpegBatches :
          /\ request' = images
          /\ served' = RunServable(predict_fn.signature, [images |-> images])
    /\ UNCHANGED predict_fn

\* The directory the validation notebook reads is in any state the export
\* notebook leaves one in.
InitServe ==
    /\ fs \in {f \in [Versions ->
                        {Absent, EmptyDir, PartialDir}
                        \cup {SavedDir(predict_signature_def({"images"}, PredictionKeys), k) :
                                k \in 1..MaxKernels}] :
                 \A v \in Versions \ {VERSION} : f[v] = Absent}
    /\ ServeIdle /\ KernelIdle /\ PostIdle /\ PreIdle

NextServe ==
    \/ LoadPredictor /\ UNCHANGED <<postVars, preVars, kernelVars, fs>>
    \/ Predict /\ UNCHANGED <<postVars, preVars, kernelVars, fs>>

SpecServe == InitServe /\ [][NextServe]_vars

Init ==
    /\ KernelIdle /\ FsEmpty
    /\ PostIdle /\ PreIdle /\ ServeIdle

Next ==
    \/ \E v \in Versions : SetVersion(v) /\ UNCHANGED <<postVars, preVars, serveVars>>
    \/ BuildGraph /\ UNCHANGED <<postVars, preVars, serveVars>>
    \/ CreateBuilder /\ UNCHANGED <<postVars, preVars, serveVars>>
    \/ ExportServable /\ UNCHANGED <<postVars, preVars, serveVars>>
    \/ RestartKernel /\ UNCHANGED <<postVars, preVars, serveVars>>

Spec == Init /\ [][Next]_vars

\* -------------------------------------------- the unit-test cells, run
\* The vectors the output test graph is fed: every scaled-down vector of
\* TOP_K - 1 .. NumClasses entries (the shortest is one short of k), and the
\* notebook's own 1001-entry vector.
ScoreVectors ==
    UNION {[1..n -> Scores] : n \in (TOP_K - 1)..NumClasses}

InitPost ==
    /\ test_model_output \in {Tensor1(v) : v \in ScoreVectors \cup {model_probs}}
    /\ test_result = NoResult
    /\ PreIdle /\ KernelIdle /\ FsEmpty /\ ServeIdle

\* The cell that runs test_prediction_output on the fed vector.
RunOutputTest ==
    /\ test_result = NoResult
    /\ test_result' = postprocess_output(test_model_output)
    /\ UNCHANGED <<test_model_output, preVars, kernelVars, fs, serveVars>>

NextPost == RunOutputTest

SpecPost == InitPost /\ [][NextPost]_vars

InitPre ==
    /\ test_jpeg_tensor \in JpegBatches
    /\ test_processed = NoImages
    /\ DecodeIdle
    /\ PostIdle /\ KernelIdle /\ FsEmpty /\ ServeIdle

\* The cell that runs test_processed_images on the fed batch.
RunInputTest ==
    /\ test_processed = NoImages
    /\ test_processed' = preprocess_input(test_jpeg_tensor)
    /\ UNCHANGED <<test_jpeg_tensor, test_jpeg, test_decoded_tensor>>
    /\ UNCHANGED <<postVars, kernelVars, fs, serveVars>>

NextPre == RunInputTest

SpecPre == InitPre /\ [][NextPre]_vars

\* The JPEG strings the decoding test graph is fed: as Jpegs, with R, G, B
\* values at both ends and in the middle of 0..255.
TestPixelLevels == {0, 1, 127, 128, 254, 255}
TestJpegs ==
    [height : {m * _DEFAULT_IMAGE_SIZE : m \in 1..MaxHeightFactor},
     width  : {_DEFAULT_IMAGE_SIZE},
     rgb    : [1..3 -> TestPixelLevels]]

InitDecode ==
    /\ test_jpeg \in TestJpegs
    /\ test_decoded_tensor = NoTensor
    /\ BatchIdle
    /\ PostIdle /\ KernelIdle /\ FsEmpty /\ ServeIdle

\* The cell that runs test_decoded_tensor on the fed string.
RunDecodeTest ==
    /\ test_decoded_tensor = NoTensor
    /\ test_decoded_tensor' =
          [status |-> "ok",
           shape  |-> convert_jpeg_to_image(test_jpeg).shape,
           px     |-> convert_jpeg_to_image(test_jpeg).px]
    /\ UNCHANGED <<test_jpeg, test_jpeg_tensor, test_processed>>
    /\ UNCHANGED <<postVars, kernelVars, fs, serveVars>>

NextDecode == RunDecodeTest

SpecDecode == InitDecode /\ [][NextDecode]_vars

\* ------------------------------------------------- claims on the selector
\* The fed vector, its length, and the test's outcome.
Fed == test_model_output.data
FedLen == Len(Fed)
Selected == test_result.status = "ok"
ClassSet == {test_result.classes[i] : i \in DOMAIN test_result.classes}

\* C1: the returned probabilities are in non-increasing order:
\* probabilities[i] >= probabilities[i+1] for every adjacent pair.
C1_ProbabilitiesDescending ==
    Selected =>
        \A i \in 1..(TOP_K - 1) :
            test_result.probabilities[i] >= test_result.probabilities[i + 1]

C1_Witness ==
    /\ Selected
    /\ FedLen > TOP_K
    /\ test_result.probabilities[1] > test_result.probabilities[TOP_K]
    /\ test_result.classes[1] > test_result.classes[TOP_K]

\* C2: every returned class is a 0-based index into the input, and the input
\* value at that index is the probability returned at the same position.
C2_ClassesIndexProbabilities ==
    Selected =>
        \A i \in 1..TOP_K :
            /\ test_result.classes[i] \in 0..(FedLen - 1)
            /\ Fed[test_result.classes[i] + 1] = test_result.probabilities[i]

C2_Witness ==
    /\ Selected
    /\ FedLen > TOP_K
    /\ test_result.classes[1] = FedLen - 1
    /\ test_result.classes[TOP_K] = 0

\* C3: the k largest scores are returned: an input entry whose index is not
\* among the returned classes is at most the smallest returned probability.
C3_KLargest ==
    Selected =>
        \A j \in 1..FedLen :
            (j - 1) \notin ClassSet => Fed[j] <= test_result.probabilities[TOP_K]

C3_Witness ==
    /\ Selected
    /\ \E j \in 1..FedLen :
          /\ (j - 1) \notin ClassSet
          /\ j < TOP_K
          /\ Fed[j] < test_result.probabilities[TOP_K]

\* C4: on an input of at least k entries the selector succeeds, and classes
\* and probabilities both hold exactly k = TOP_K = 5 elements.
C4_OutputLengthK ==
    (test_result # NoResult /\ FedLen >= TOP_K) =>
        /\ Selected
        /\ Len(test_result.classes) = 5
        /\ Len(test_result.probabilities) = 5

C4_Witness ==
    /\ Selected
    /\ FedLen > TOP_K
    /\ Len(test_result.classes) = TOP_K

\* Exactly k entries of v hold pairwise distinct values, each strictly
\* greater than every other entry; W is the set of their positions.
ClearWinners(v, W) ==
    /\ W \subseteq DOMAIN v
    /\ Cardinality(W) = TOP_K
    /\ \A a, b \in W : a # b => v[a] # v[b]
    /\ \A a \in W : \A j \in DOMAIN v \ W : v[a] > v[j]

\* The positions of v with at most k entries at or above them.
Winners(v) ==
    {i \in DOMAIN v : Cardinality({j \in DOMAIN v : v[j] >= v[i]}) <= TOP_K}

\* C5: when exactly k entries hold pairwise distinct values strictly above
\* all the others, classes lists exactly those k indices by decreasing value
\* and probabilities is strictly descending; on the unit test's vector the
\* classes are 10, 5, 49, 2, 998.
C5_ClearWinnersInOrder ==
    (Selected /\ ClearWinners(Fed, Winners(Fed))) =>
        /\ \A r \in 1..TOP_K :
              LET c == test_result.classes[r] + 1
              IN  /\ c \in Winners(Fed)
                  /\ Cardinality({a \in Winners(Fed) : Fed[a] > Fed[c]}) = r - 1
        /\ \A r \in 1..(TOP_K - 1) :
              test_result.probabilities[r] > test_result.probabilities[r + 1]
        /\ Fed = model_probs => test_result.classes = <<10, 5, 49, 2, 998>>

C5_Witness ==
    /\ Selected
    /\ Fed = model_probs
    /\ ClearWinners(Fed, Winners(Fed))
    /\ test_result.classes[1] = 10

\* A vector of numerators is a normalized probability vector over its own
\* TOTAL_WEIGHT: no entry is negative and the entries sum to the (positive)
\* denominator.
IsNormalized(v) == (\A i \in DOMAIN v : v[i] >= 0) /\ TOTAL_WEIGHT(v) > 0

MaxOf(s) == CHOOSE x \in {s[i] : i \in DOMAIN s} : \A i \in DOMAIN s : s[i] <= x
MinOf(s) == CHOOSE x \in {s[i] : i \in DOMAIN s} : \A i \in DOMAIN s : s[i] >= x

\* C6: for a normalized probability vector of length N the largest returned
\* probability is at most 1 and at least 1/N, and the smallest returned
\* probability is not negative (numerators over TOTAL_WEIGHT).
C6_ProbabilityRange ==
    (Selected /\ IsNormalized(Fed)) =>
        /\ MaxOf(test_result.probabilities) <= TOTAL_WEIGHT(Fed)
        /\ FedLen * MaxOf(test_result.probabilities) >= TOTAL_WEIGHT(Fed)
        /\ MinOf(test_result.probabilities) >= 0

C6_Witness ==
    /\ Selected
    /\ IsNormalized(Fed)
    /\ FedLen > TOP_K
    /\ FedLen * MaxOf(test_result.probabilities) = TOTAL_WEIGHT(Fed)

\* ------------------------------------------------ claims on preprocessing
\* Every image of the fed batch is 224 x 224, as the client resizes them.
ClientSized(batch) ==
    \A i \in DOMAIN batch :
        /\ batch[i].height = _DEFAULT_IMAGE_SIZE
        /\ batch[i].width = _DEFAULT_IMAGE_SIZE

\* The result is a 4D tensor of one 224 x 224 x 3 row per fed JPEG, in input
\* order, row i being convert_jpeg_to_image of JPEG i alone; equal JPEGs at
\* positions 0 and 1 give equal rows 0 and 1.
RowPerJpeg ==
    /\ test_processed.status = "ok"
    /\ Len(test_processed.rows) = Len(test_jpeg_tensor)
    /\ \A i \in DOMAIN test_processed.rows :
          /\ test_processed.rows[i].shape
                = <<_DEFAULT_IMAGE_SIZE, _DEFAULT_IMAGE_SIZE, 3>>
          /\ test_processed.rows[i].px
                = convert_jpeg_to_image(test_jpeg_tensor[i]).px
    /\ (Len(test_jpeg_tensor) >= 2 /\ test_jpeg_tensor[1] = test_jpeg_tensor[2])
          => test_processed.rows[1] = test_processed.rows[2]

\* C10 as stated: preprocess_input of any batch of n JPEG strings returns n
\* rows of shape 224x224x3, row i from JPEG i alone.
C10_RowPerJpegAnyBatch ==
    test_processed # NoImages => RowPerJpeg

\* C10, amended: preprocess_input of a batch of n JPEG strings that each
\* decode to a 224 x 224 image returns n rows of shape 224x224x3 in input
\* order, row i being convert_jpeg_to_image of JPEG i alone.
C10_RowPerClientSizedJpeg ==
    (test_processed # NoImages /\ ClientSized(test_jpeg_tensor)) => RowPerJpeg

C10_Witness ==
    /\ test_processed.status = "ok"
    /\ ClientSized(test_jpeg_tensor)
    /\ Len(test_jpeg_tensor) = 2
    /\ test_jpeg_tensor[1] # test_jpeg_tensor[2]
    /\ test_processed.rows[1] # test_processed.rows[2]
    /\ test_processed.rows[1] = convert_jpeg_to_image(test_jpeg_tensor[1])

\* ----------------------------------------------------- claims on export
\* The step is a run of the builder cell that names a directory holding a
\* saved servable; of the export cell with a builder for such a directory;
\* of the export cell with a builder whose directory nothing was saved to
\* (the builder cell made it: an unused version), no higher version having
\* a directory (the version number was incremented).
BuilderCellOnSaved ==
    /\ last'.cell = "builder"
    /\ VERSION_NUMBER # 0
    /\ fs[SERVING_DIR].state = "saved"

ExportCellOnSaved ==
    /\ last'.cell = "export"
    /\ fs[builder.dir].state = "saved"

ExportCellOnUnused ==
    /\ last'.cell = "export"
    /\ ~builder.has_saved_variables
    /\ fs[builder.dir].state = "empty"
    /\ \A v \in Versions : fs[v].state # "absent" => v <= builder.dir

\* Once a servable is saved in a version's directory, a later run of the
\* builder cell or of the export cell that targets it raises, and no step
\* changes the directory.
SavedServableKept ==
    [][/\ \A v \in Versions : fs[v].state = "saved" => fs'[v] = fs[v]
       /\ BuilderCellOnSaved => ~last'.ok
       /\ ExportCellOnSaved => ~last'.ok]_vars

\* C8: once a servable is saved in <servable_root>/<version_number>, every
\* later export attempt that targets that directory fails and leaves the
\* servable unchanged, while an export attempt that targets a version number
\* not used before succeeds.
C8_ExportOutcomes ==
    [][/\ \A v \in Versions : fs[v].state = "saved" => fs'[v] = fs[v]
       /\ BuilderCellOnSaved => ~last'.ok
       /\ ExportCellOnSaved => ~last'.ok
       /\ ExportCellOnUnused => last'.ok]_vars

\* ---------------------------------------------------- claims on serving
\* The response maps exactly classes and probabilities to one row per
\* submitted image, every row of TOP_K = 5 entries, row j being the top
\* classes and probabilities of image j.
RowPerImage ==
    /\ served.status = "ok"
    /\ DOMAIN served.response = {"classes", "probabilities"}
    /\ Len(served.response.classes) = Len(request)
    /\ Len(served.response.probabilities) = Len(request)
    /\ \A j \in DOMAIN request :
          LET alone == postprocess_output(
                         Tensor1(ResNet50(convert_jpeg_to_image(request[j]))))
          IN  /\ Len(served.response.classes[j]) = 5
              /\ Len(served.response.probabilities[j]) = 5
              /\ served.response.classes[j] = alone.classes
              /\ served.response.probabilities[j] = alone.probabilities

\* C9 as stated: a request of n >= 1 encoded images under the key images
\* returns classes and probabilities, each of n rows of 5 entries.
C9_RowPerImageAnyRequest ==
    served # NoResponse => RowPerImage

\* C9, amended: a request of n >= 1 encoded images that each decode to a
\* 224 x 224 image returns a mapping with exactly the keys classes and
\* probabilities, each of n rows (row j for image j) of 5 entries.
C9_RowPerClientSizedImage ==
    (served # NoResponse /\ ClientSized(request)) => RowPerImage

C9_Witness ==
    /\ served.status = "ok"
    /\ ClientSized(request)
    /\ Len(request) = 2
    /\ Len(served.response.classes) = 2
    /\ served.response.classes[1] # served.response.classes[2]

\* ------------------------------------------------- claims on JPEG decoding
\* The decoding test has run; x units is at least -lo and at most hi (lo,
\* hi >= 0 decimals in ten-thousandths).
Decoded == test_decoded_tensor.status = "ok"
Within(x, lo, hi) ==
    /\ 0 - x <= DecimalFloorUnits(lo)
    /\ x <= DecimalFloorUnits(hi)

\* The tensor has the decoded image's shape, 224 x 224 x 3 for an image the
\* client resized.
KeepsShape ==
    /\ test_decoded_tensor.shape = <<test_jpeg.height, test_jpeg.width, 3>>
    /\ ClientSized(<<test_jpeg>>)
          => test_decoded_tensor.shape
                = <<_DEFAULT_IMAGE_SIZE, _DEFAULT_IMAGE_SIZE, 3>>

\* C11 as stated: every value of the tensor convert_jpeg_to_image returns
\* lies in [-123.68, 255 - 103.939], and the tensor keeps the image's shape.
C11_ValuesInExactRange ==
    Decoded =>
        /\ \A c \in 1..3 :
              Within(test_decoded_tensor.px[c], MEAN_R, 255 * 10000 - MEAN_B)
        /\ KeepsShape

\* C11, amended: every value of the tensor convert_jpeg_to_image returns
\* lies in [-123.68 - ERROR_TOLERANCE, 255 - 103.939 + ERROR_TOLERANCE]
\* (ERROR_TOLERANCE = 1e-4), and the tensor keeps the image's shape.
C11_ValuesInRangeWithinTolerance ==
    Decoded =>
        /\ \A c \in 1..3 :
              Within(test_decoded_tensor.px[c],
                     MEAN_R + ERROR_TOLERANCE,
                     255 * 10000 - MEAN_B + ERROR_TOLERANCE)
        /\ KeepsShape

C11_Witness ==
    /\ Decoded
    /\ ClientSized(<<test_jpeg>>)
    /\ test_jpeg.rgb = <<0, 128, 255>>
    /\ test_decoded_tensor.px[1] > DecimalFloorUnits(255 * 10000 - MEAN_B)
    /\ 0 - test_decoded_tensor.px[3] > DecimalFloorUnits(MEAN_R)

\* --------------------------------------------- claims on tied probabilities
\* C12: the returned classes are pairwise distinct for every input vector of
\* length N >= k, tied values included: no input position is reported twice.
C12_ClassesDistinct ==
    (Selected /\ FedLen >= TOP_K) =>
        \A i, j \in 1..TOP_K :
            i # j => test_result.classes[i] # test_result.classes[j]

\* An all-equal vector longer than k has been ranked.
C12_Witness ==
    /\ Selected
    /\ FedLen > TOP_K
    /\ \A i, j \in 1..FedLen : Fed[i] = Fed[j]

====
